---- MODULE Spec2Model ----
(***************************************************************************)
(* tf2_ros buffer_interface.py: the type registries (TransformRegistration *)
(* and ConvertRegistration), the conversion dispatcher convert(), the      *)
(* facade BufferInterface.transform / transform_full, and Stamped().       *)
(***************************************************************************)
EXTENDS Integers, Sequences, FiniteSets, TLC

\* ------------------------------------------------------------------ bounds
\* Most register calls in one run of the registry and facade specifications.
MaxRegs == 2
\* Most register calls in one run of the dispatcher specification.
MaxConvRegs == 3
\* Most register calls in one run of the threaded specification.
MaxConcRegs == 2

\* ------------------------------------------------------------- the universe
\* Concrete object types. SubPoint is a subclass of Point; Pose is unrelated.
Types == {"Point", "SubPoint", "Pose"}

\* The classes type t is an instance of (its method resolution order).
Mro(t) == IF t = "SubPoint" THEN {"SubPoint", "Point"} ELSE {t}

\* isinstance(a, b_type)
isinstance(a, b_type) == b_type \in Mro(a.type)

\* type(a), as a registry key. Keys are tuples: <<t>> for a type, <<a, b>> for a pair.
TypeKey(t) == <<t>>
PairKey(a, b) == <<a, b>>
TypeKeys == {TypeKey(t) : t \in Types}
PairKeys == {PairKey(a, b) : a \in Types, b \in Types}

\* Registry instances: every TransformRegistration() / ConvertRegistration() object.
Instances == {"r1", "r2"}

\* Callbacks that extension modules register.
ApplyFns == {"do_transform_same", "do_transform_pose"}
ToFns == {"to_msg", "to_msg_lossy"}
FromFns == {"from_msg", "from_msg_lossy"}
ConvertFns == {"cv_direct", "cv_raise_type"}

Frames == {"laser", "base"}
\* The frame held fixed in time by the advanced API.
FixedFrames == {"odom"}
Stamps == {1, 2}
ObjIds == {1, 2, 3}

\* ------------------------------------------------------------------- state
VARIABLES
    type_map,       \* TransformRegistration.__type_map (class attribute)
    to_msg_map,     \* ConvertRegistration.__to_msg_map
    from_msg_map,   \* ConvertRegistration.__from_msg_map
    convert_map,    \* ConvertRegistration.__convert_map
    heap,           \* the caller's objects, by identity
    last,           \* the call the caller made last and what came back
    nRegs,          \* register calls made so far
    registered,     \* history: per registry, key -> callback of the latest register call
    tpc,            \* per thread: where it is inside get
    tkey,           \* per thread: the registry and key of its get, and what the
                    \* key held when the membership test ran
    ever            \* history: per registry, key -> every callback ever registered

vars == <<type_map, to_msg_map, from_msg_map, convert_map, heap, last, nRegs,
          registered, tpc, tkey, ever>>

\* ------------------------------------------------------------ outcomes
Return(v) == [kind |-> "return", val |-> v]
Raise(e) == [kind |-> "raise", val |-> e]

\* TypeException('Type %s is not loaded or supported' % str(key))
TypeException(key) ==
    [type |-> "TypeException", errstr |-> <<"Type", key, "is not loaded or supported">>]

\* NotImplementedException()
NotImplementedException ==
    [type |-> "NotImplementedException",
     errstr |-> <<"CanTransform or LookupTransform not implemented">>]

IsTypeException(out) == out.kind = "raise" /\ out.val.type = "TypeException"

\* ------------------------------------------------------------ registries
EmptyMap == [k \in {} |-> "none"]

\* dict[key] = callback
SetItem(map, key, callback) ==
    [k \in DOMAIN map \cup {key} |-> IF k = key THEN callback ELSE map[k]]

\* A registry rebuilt on every registration ({key: callback} bound anew).
add_rebuild(map, key, callback) == [k \in {key} |-> callback]

\* A registry that keeps the first callback of a key (dict.setdefault).
add_keep_first(map, key, callback) ==
    IF key \in DOMAIN map THEN map ELSE SetItem(map, key, callback)

\* TransformRegistration.add
add(map, key, callback) == SetItem(map, key, callback)

\* ConvertRegistration.add_from_msg
add_from_msg(map, key, callback) == SetItem(map, key, callback)

\* ConvertRegistration.add_to_msg
add_to_msg(map, key, callback) == SetItem(map, key, callback)

\* ConvertRegistration.add_convert
add_convert(map, key, callback) == SetItem(map, key, callback)

\* key in dict
contains(map, key) == key \in DOMAIN map

KeyError(key) == [type |-> "KeyError", errstr |-> <<key>>]

\* dict[key]
getitem(map, key) == IF key \in DOMAIN map THEN Return(map[key]) ELSE Raise(KeyError(key))

\* A lookup that falls back to a registration of a superclass.
get_by_mro(map, key) ==
    IF key \in DOMAIN map THEN Return(map[key])
    ELSE IF Len(key) = 1 /\ \E k \in DOMAIN map : Len(k) = 1 /\ k[1] \in Mro(key[1])
         THEN Return(map[CHOOSE k \in DOMAIN map : Len(k) = 1 /\ k[1] \in Mro(key[1])])
         ELSE Raise(TypeException(key))

\* TransformRegistration.get
get(map, key) ==
    IF ~contains(map, key) THEN Raise(TypeException(key)) ELSE getitem(map, key)

\* ConvertRegistration.get_from_msg
get_from_msg(map, key) ==
    IF ~contains(map, key) THEN Raise(TypeException(key)) ELSE getitem(map, key)

\* ConvertRegistration.get_to_msg
get_to_msg(map, key) ==
    IF ~contains(map, key) THEN Raise(TypeException(key)) ELSE getitem(map, key)

\* ConvertRegistration.get_convert
get_convert(map, key) ==
    IF ~contains(map, key) THEN Raise(TypeException(key)) ELSE getitem(map, key)

\* ------------------------------------------------------------------ Init
Header(frame_id, stamp) == [frame_id |-> frame_id, stamp |-> stamp]

ObjType(i) == IF i = 1 THEN "Point" ELSE IF i = 2 THEN "SubPoint" ELSE "Pose"

NoCall == [op |-> "none"]

Threads == {"t1", "t2"}

NoKey == <<"none", <<>>, "none">>

Init ==
    /\ type_map = EmptyMap
    /\ to_msg_map = EmptyMap
    /\ from_msg_map = EmptyMap
    /\ convert_map = EmptyMap
    /\ heap = [i \in ObjIds |->
                 [type |-> ObjType(i), header |-> Header("laser", 1), data |-> <<"d">>]]
    /\ last = NoCall
    /\ nRegs = 0
    /\ registered = [type_map |-> EmptyMap, to_msg_map |-> EmptyMap,
                     from_msg_map |-> EmptyMap, convert_map |-> EmptyMap]
    /\ tpc = [t \in Threads |-> "idle"]
    /\ tkey = [t \in Threads |-> NoKey]
    /\ ever = [type_map |-> EmptyMap, to_msg_map |-> EmptyMap,
               from_msg_map |-> EmptyMap, convert_map |-> EmptyMap]

\* The caller is between two calls.
Idle == last = NoCall

ConcVars == <<tpc, tkey>>

\* The caller drops the result of its last call and goes on.
Continue ==
    /\ last # NoCall
    /\ last' = NoCall
    /\ UNCHANGED <<type_map, to_msg_map, from_msg_map, convert_map, heap, nRegs,
                   registered, ever, ConcVars>>

\* ---------------------------------------------------- registry operations
\* History of a register call: the latest callback of the key, and all it ever had.
Note(reg, key, callback) == [registered EXCEPT ![reg] = SetItem(@, key, callback)]

NoteEver(reg, key, callback) ==
    [ever EXCEPT ![reg] =
        SetItem(@, key, (IF key \in DOMAIN @ THEN @[key] ELSE {}) \cup {callback})]

Register_transform(max) ==
    \E self \in Instances, key \in TypeKeys, cb \in ApplyFns :
        /\ Idle /\ nRegs < max
        /\ type_map' = add(type_map, key, cb)
        /\ registered' = Note("type_map", key, cb)
        /\ ever' = NoteEver("type_map", key, cb)
        /\ nRegs' = nRegs + 1
        /\ last' = [op |-> "add", reg |-> "type_map", self |-> self, key |-> key, cb |-> cb]
        /\ UNCHANGED <<to_msg_map, from_msg_map, convert_map, heap, ConcVars>>

Register_to_msg(max) ==
    \E self \in Instances, key \in TypeKeys, cb \in ToFns :
        /\ Idle /\ nRegs < max
        /\ to_msg_map' = add_to_msg(to_msg_map, key, cb)
        /\ registered' = Note("to_msg_map", key, cb)
        /\ ever' = NoteEver("to_msg_map", key, cb)
        /\ nRegs' = nRegs + 1
        /\ last' = [op |-> "add", reg |-> "to_msg_map", self |-> self, key |-> key, cb |-> cb]
        /\ UNCHANGED <<type_map, from_msg_map, convert_map, heap, ConcVars>>

Register_from_msg(max) ==
    \E self \in Instances, key \in TypeKeys, cb \in FromFns :
        /\ Idle /\ nRegs < max
        /\ from_msg_map' = add_from_msg(from_msg_map, key, cb)
        /\ registered' = Note("from_msg_map", key, cb)
        /\ ever' = NoteEver("from_msg_map", key, cb)
        /\ nRegs' = nRegs + 1
        /\ last' = [op |-> "add", reg |-> "from_msg_map", self |-> self, key |-> key, cb |-> cb]
        /\ UNCHANGED <<type_map, to_msg_map, convert_map, heap, ConcVars>>

Register_convert(max) ==
    \E self \in Instances, key \in PairKeys, cb \in ConvertFns :
        /\ Idle /\ nRegs < max
        /\ convert_map' = add_convert(convert_map, key, cb)
        /\ registered' = Note("convert_map", key, cb)
        /\ ever' = NoteEver("convert_map", key, cb)
        /\ nRegs' = nRegs + 1
        /\ last' = [op |-> "add", reg |-> "convert_map", self |-> self, key |-> key, cb |-> cb]
        /\ UNCHANGED <<type_map, to_msg_map, from_msg_map, heap, ConcVars>>

RegVars ==
    <<type_map, to_msg_map, from_msg_map, convert_map, heap, nRegs, registered, ever>>

Get_transform ==
    \E self \in Instances, key \in TypeKeys \cup PairKeys :
        /\ Idle
        /\ last' = [op |-> "get", reg |-> "type_map", self |-> self, key |-> key,
                    out |-> get(type_map, key)]
        /\ UNCHANGED <<RegVars, ConcVars>>

Get_to_msg ==
    \E self \in Instances, key \in TypeKeys \cup PairKeys :
        /\ Idle
        /\ last' = [op |-> "get", reg |-> "to_msg_map", self |-> self, key |-> key,
                    out |-> get_to_msg(to_msg_map, key)]
        /\ UNCHANGED <<RegVars, ConcVars>>

Get_from_msg ==
    \E self \in Instances, key \in TypeKeys \cup PairKeys :
        /\ Idle
        /\ last' = [op |-> "get", reg |-> "from_msg_map", self |-> self, key |-> key,
                    out |-> get_from_msg(from_msg_map, key)]
        /\ UNCHANGED <<RegVars, ConcVars>>

Get_convert ==
    \E self \in Instances, key \in TypeKeys \cup PairKeys :
        /\ Idle
        /\ last' = [op |-> "get", reg |-> "convert_map", self |-> self, key |-> key,
                    out |-> get_convert(convert_map, key)]
        /\ UNCHANGED <<RegVars, ConcVars>>

NextRegistry ==
    \/ Register_transform(MaxRegs)
    \/ Register_to_msg(MaxRegs)
    \/ Register_from_msg(MaxRegs)
    \/ Register_convert(MaxRegs)
    \/ Get_transform
    \/ Get_to_msg
    \/ Get_from_msg
    \/ Get_convert
    \/ Continue

SpecRegistry == Init /\ [][NextRegistry]_vars

\* The map a registry name stands for.
MapOf(reg) ==
    CASE reg = "type_map" -> type_map
      [] reg = "to_msg_map" -> to_msg_map
      [] reg = "from_msg_map" -> from_msg_map
      [] reg = "convert_map" -> convert_map

Registries == {"type_map", "to_msg_map", "from_msg_map", "convert_map"}

\* The getter of a registry name, on the current map.
GetOf(reg, key) ==
    CASE reg = "type_map" -> get(type_map, key)
      [] reg = "to_msg_map" -> get_to_msg(to_msg_map, key)
      [] reg = "from_msg_map" -> get_from_msg(from_msg_map, key)
      [] reg = "convert_map" -> get_convert(convert_map, key)

\* C3: in each of the four registries, a get on a key that was never registered
\* in that same registry raises TypeException naming exactly that key; it returns
\* no function, whatever is registered under other keys (a superclass, a pair
\* holding the type) or under the same key in another registry.
C3_UnregisteredGetRaises ==
    (last.op = "get" /\ last.key \notin DOMAIN ever[last.reg])
        => /\ last.out.kind = "raise"
           /\ last.out.val = TypeException(last.key)

\* C3 witness: get(SubPoint) on the transform registry raised although its
\* superclass Point is registered there and SubPoint is registered for to_msg.
C3_Witness ==
    /\ last.op = "get" /\ last.reg = "type_map" /\ last.key = TypeKey("SubPoint")
    /\ TypeKey("Point") \in DOMAIN type_map
    /\ TypeKey("SubPoint") \in DOMAIN to_msg_map
    /\ IsTypeException(last.out)

C4_LastWriteWins ==
    /\ \A reg \in Registries : \A k \in DOMAIN registered[reg] :
            GetOf(reg, k) = Return(registered[reg][k])
    /\ (last.op = "get" /\ last.key \in DOMAIN registered[last.reg])
            => last.out = Return(registered[last.reg][last.key])
    /\ (last.op = "add") => GetOf(last.reg, last.key) = Return(last.cb)

C4_NoRemoval ==
    \A reg \in Registries : \A k \in DOMAIN ever[reg] :
        /\ k \in DOMAIN MapOf(reg)
        /\ k \in DOMAIN MapOf(reg)'

\* C4: get(k) returns the callback of the latest register call for k in that
\* registry, through whichever instance either call was made, and a key once
\* registered stays registered in every later state.
C4_AdditiveLastWriteWins == [](C4_LastWriteWins) /\ [][C4_NoRemoval]_vars

\* C4 witness: a get through one instance returned the second of two callbacks
\* registered for the same key.
C4_Witness ==
    /\ last.op = "get" /\ last.out.kind = "return"
    /\ last.key \in DOMAIN ever[last.reg]
    /\ Cardinality(ever[last.reg][last.key]) = 2


\* ------------------------------------------------------------- values
\* A value in a call: an object's identity and its content. Identity 0 is an
\* object allocated during the call, which no caller's object shares.
Fresh == 0

\* The caller's object i, as passed to a call.
Ref(i) == [id |-> i, type |-> heap[i].type, header |-> heap[i].header,
           data |-> heap[i].data]

Content(v) == [type |-> v.type, header |-> v.header, data |-> v.data]

\* copy.deepcopy that hands back its argument (what copy.copy of a shared field does).
deepcopy_alias(a) == a

\* copy.deepcopy(a): a new object with the content of a
deepcopy(a) == [a EXCEPT !.id = Fresh]

\* What the registered callbacks do. A direct conversion builds the target
\* representation itself; cv_raise_type is a direct conversion that fails with a
\* TypeException of its own (it looks up a type that is not loaded).
CallConvertFn(f, a, b_type) ==
    CASE f = "cv_direct" ->
            Return([id |-> Fresh, type |-> b_type, header |-> a.header,
                    data |-> a.data \o <<"direct">>])
      [] f = "cv_raise_type" -> Raise(TypeException(<<"Inner">>))

\* to_msg keeps the payload; to_msg_lossy drops what the message cannot hold.
CallToFn(f, a) ==
    CASE f = "to_msg" ->
            [id |-> Fresh, type |-> "Msg", header |-> a.header, data |-> a.data]
      [] f = "to_msg_lossy" ->
            [id |-> Fresh, type |-> "Msg", header |-> a.header, data |-> <<>>]

\* from_msg rebuilds the payload; from_msg_lossy fills what the type cannot hold.
CallFromFn(f, msg, b_type) ==
    CASE f = "from_msg" ->
            [id |-> Fresh, type |-> b_type, header |-> msg.header,
             data |-> msg.data \o <<"bridge">>]
      [] f = "from_msg_lossy" ->
            [id |-> Fresh, type |-> b_type, header |-> msg.header,
             data |-> <<"bridge">>]

\* A call's result: its outcome and the callables it invoked, in order.
Result(out, calls) == [out |-> out, calls |-> calls]

\* The bridge with f_to applied before from_canonical is looked up.
bridge_eager(a, b_type, calls) ==
    LET f_to == get_to_msg(to_msg_map, TypeKey(a.type))
        f_from == get_from_msg(from_msg_map, TypeKey(b_type))
    IN  IF f_to.kind = "raise" THEN Result(f_to, calls)
        ELSE IF f_from.kind = "raise" THEN Result(f_from, calls \o <<f_to.val>>)
        ELSE Result(Return(CallFromFn(f_from.val, CallToFn(f_to.val, a), b_type)),
                    calls \o <<f_to.val, f_from.val>>)

\* convert, lines 359-361: f_to = c.get_to_msg(type(a)); f_from = c.get_from_msg(b_type);
\* return f_from(f_to(a))
bridge(a, b_type, calls) ==
    LET f_to == get_to_msg(to_msg_map, TypeKey(a.type))
        f_from == get_from_msg(from_msg_map, TypeKey(b_type))
    IN  IF f_to.kind = "raise" THEN Result(f_to, calls)
        ELSE IF f_from.kind = "raise" THEN Result(f_from, calls)
        ELSE Result(Return(CallFromFn(f_from.val, CallToFn(f_to.val, a), b_type)),
                    calls \o <<f_to.val, f_from.val>>)

\* convert, the except TypeException clause (lines 355-361)
except_TypeException(a, b_type, calls) ==
    IF isinstance(a, b_type)
    THEN Result(Return(deepcopy(a)), calls \o <<"deepcopy">>)
    ELSE bridge(a, b_type, calls)

\* convert(a, b_type): the try block holds both the lookup and the call f(a), so
\* a TypeException out of either enters the except clause.
convert(a, b_type) ==
    LET f == get_convert(convert_map, PairKey(a.type, b_type))
    IN  IF IsTypeException(f) THEN except_TypeException(a, b_type, <<>>)
        ELSE LET r == CallConvertFn(f.val, a, b_type)
             IN  IF IsTypeException(r)
                 THEN except_TypeException(a, b_type, <<f.val>>)
                 ELSE Result(r, <<f.val>>)

Call_convert ==
    \E o \in ObjIds, b_type \in Types :
        /\ Idle
        /\ last' = [op |-> "convert", a |-> Ref(o), b_type |-> b_type,
                    res |-> convert(Ref(o), b_type)]
        /\ UNCHANGED <<RegVars, ConcVars>>

NextConvert ==
    \/ Register_to_msg(MaxConvRegs)
    \/ Register_from_msg(MaxConvRegs)
    \/ Register_convert(MaxConvRegs)
    \/ Call_convert
    \/ Continue

SpecConvert == Init /\ [][NextConvert]_vars


\* C1: whenever a direct_convert entry is registered for (type(a), b_type),
\* convert(a, b_type) invokes that entry and nothing else, and its outcome is
\* the entry's outcome, an error of the entry included.
C1_DirectConvertPreferred ==
    (last.op = "convert" /\ PairKey(last.a.type, last.b_type) \in DOMAIN convert_map)
        => LET f == convert_map[PairKey(last.a.type, last.b_type)]
           IN  last.res = Result(CallConvertFn(f, last.a, last.b_type), <<f>>)

\* C2 as stated: in every registry state convert(x, type(x)) returns a value
\* with the content of x that is another object than x.
C2_DeepCopyIdentityAlways ==
    (last.op = "convert" /\ last.b_type = last.a.type)
        => /\ last.res.out.kind = "return"
           /\ Content(last.res.out.val) = Content(last.a)
           /\ last.res.out.val.id # last.a.id

\* C2 amended: when no direct_convert entry is registered for (type(x), type(x)),
\* convert(x, type(x)) returns a value with the content of x that is another
\* object than x, whatever else is registered.
C2_DeepCopyIdentity ==
    (/\ last.op = "convert" /\ last.b_type = last.a.type
     /\ PairKey(last.a.type, last.a.type) \notin DOMAIN convert_map)
        => /\ last.res.out.kind = "return"
           /\ Content(last.res.out.val) = Content(last.a)
           /\ last.res.out.val.id # last.a.id

\* C2 witness: convert(x, type(x)) returned while the bridge of the type and a
\* direct conversion of another pair were registered.
C2_Witness ==
    /\ last.op = "convert" /\ last.b_type = last.a.type
    /\ PairKey(last.a.type, last.a.type) \notin DOMAIN convert_map
    /\ TypeKey(last.a.type) \in DOMAIN to_msg_map
    /\ TypeKey(last.a.type) \in DOMAIN from_msg_map
    /\ DOMAIN convert_map # {}
    /\ last.res.out.kind = "return"

\* ---------------------------------------------------------------- the facade
\* The buffer a call is made on: the base class itself, or a subclass that
\* implements the four operations and answers, or fails, as its name says.
Buffers == {"BufferInterface", "Buffer_ok", "Buffer_LookupException"}

\* The error a failing subclass raises from its lookup.
LookupException == [type |-> "LookupException", errstr |-> <<"frame does not exist">>]

TransformStamped(target_frame, source_frame, time) ==
    [header |-> Header(target_frame, time), child_frame_id |-> source_frame]

\* A base class whose lookup_transform falls through (pass) and hands back a
\* default transform.
lookup_transform_pass(buf, target_frame, source_frame, time) ==
    CASE buf = "BufferInterface" -> Return(TransformStamped(target_frame, source_frame, 0))
      [] buf = "Buffer_ok" -> Return(TransformStamped(target_frame, source_frame, time))
      [] buf = "Buffer_LookupException" -> Raise(LookupException)

\* BufferInterface.lookup_transform, or its override in a subclass
lookup_transform(buf, target_frame, source_frame, time) ==
    CASE buf = "BufferInterface" -> Raise(NotImplementedException)
      [] buf = "Buffer_ok" -> Return(TransformStamped(target_frame, source_frame, time))
      [] buf = "Buffer_LookupException" -> Raise(LookupException)

\* BufferInterface.lookup_transform_full, or its override in a subclass
lookup_transform_full(buf, target_frame, target_time, source_frame, source_time, fixed_frame) ==
    CASE buf = "BufferInterface" -> Raise(NotImplementedException)
      [] buf = "Buffer_ok" ->
            Return(TransformStamped(target_frame, source_frame, target_time))
      [] buf = "Buffer_LookupException" -> Raise(LookupException)

\* BufferInterface.can_transform, or its override in a subclass
can_transform(buf, target_frame, source_frame, time) ==
    CASE buf = "BufferInterface" -> Raise(NotImplementedException)
      [] buf = "Buffer_ok" -> Return(TRUE)
      [] buf = "Buffer_LookupException" -> Return(FALSE)

\* BufferInterface.can_transform_full, or its override in a subclass
can_transform_full(buf, target_frame, target_time, source_frame, source_time, fixed_frame) ==
    CASE buf = "BufferInterface" -> Raise(NotImplementedException)
      [] buf = "Buffer_ok" -> Return(TRUE)
      [] buf = "Buffer_LookupException" -> Return(FALSE)

\* The registered do_transform callbacks: a new object in the transform's frame
\* and time, of the input's type or of type Pose.
CallApplyFn(f, obj, t) ==
    [id |-> Fresh,
     type |-> IF f = "do_transform_pose" THEN "Pose" ELSE obj.type,
     header |-> t.header,
     data |-> obj.data \o <<"tf">>]

None == "None"

\* transform / transform_full after the lookup: do_transform(object, t), then
\* return res, or convert(res, new_type)
apply_and_convert(do_transform, object_stamped, t, new_type, calls) ==
    LET res == CallApplyFn(do_transform, object_stamped, t)
    IN  IF new_type = None
        THEN Result(Return(res), calls \o <<do_transform>>)
        ELSE LET c == convert(res, new_type)
             IN  Result(c.out, calls \o <<do_transform, "convert">> \o c.calls)

\* transform that asks the buffer first and the registry after.
transform_lookup_first(buf, object_stamped, target_frame, new_type) ==
    LET t == lookup_transform(buf, target_frame, object_stamped.header.frame_id,
                              object_stamped.header.stamp)
        do_transform == get(type_map, TypeKey(object_stamped.type))
    IN  IF t.kind = "raise" THEN Result(t, <<"lookup_transform">>)
        ELSE IF do_transform.kind = "raise"
             THEN Result(do_transform, <<"lookup_transform">>)
        ELSE apply_and_convert(do_transform.val, object_stamped, t.val, new_type,
                               <<"lookup_transform">>)

\* transform that looks the transform up a second time after a failure.
transform_retry(buf, object_stamped, target_frame, new_type) ==
    LET do_transform == get(type_map, TypeKey(object_stamped.type))
        t == lookup_transform(buf, target_frame, object_stamped.header.frame_id,
                              object_stamped.header.stamp)
    IN  IF do_transform.kind = "raise" THEN Result(do_transform, <<>>)
        ELSE IF t.kind = "raise"
             THEN Result(t, <<"lookup_transform", "lookup_transform">>)
        ELSE apply_and_convert(do_transform.val, object_stamped, t.val, new_type,
                               <<"lookup_transform">>)

\* BufferInterface.transform
transform(buf, object_stamped, target_frame, new_type) ==
    LET do_transform == get(type_map, TypeKey(object_stamped.type))
        t == lookup_transform(buf, target_frame, object_stamped.header.frame_id,
                              object_stamped.header.stamp)
    IN  IF do_transform.kind = "raise" THEN Result(do_transform, <<>>)
        ELSE IF t.kind = "raise" THEN Result(t, <<"lookup_transform">>)
        ELSE apply_and_convert(do_transform.val, object_stamped, t.val, new_type,
                               <<"lookup_transform">>)

\* BufferInterface.transform_full
transform_full(buf, object_stamped, target_frame, target_time, fixed_frame, new_type) ==
    LET do_transform == get(type_map, TypeKey(object_stamped.type))
        t == lookup_transform_full(buf, target_frame, target_time,
                                   object_stamped.header.frame_id,
                                   object_stamped.header.stamp, fixed_frame)
    IN  IF do_transform.kind = "raise" THEN Result(do_transform, <<>>)
        ELSE IF t.kind = "raise" THEN Result(t, <<"lookup_transform_full">>)
        ELSE apply_and_convert(do_transform.val, object_stamped, t.val, new_type,
                               <<"lookup_transform_full">>)

Call_transform ==
    \E buf \in Buffers, o \in ObjIds, target_frame \in Frames,
       new_type \in Types \cup {None} :
        /\ Idle
        /\ last' = [op |-> "transform", buf |-> buf, a |-> Ref(o),
                    b_type |-> new_type,
                    res |-> transform(buf, Ref(o), target_frame, new_type)]
        /\ UNCHANGED <<RegVars, ConcVars>>

Call_transform_full ==
    \E buf \in Buffers, o \in ObjIds, target_frame \in Frames, target_time \in Stamps,
       fixed_frame \in FixedFrames, new_type \in Types \cup {None} :
        /\ Idle
        /\ last' = [op |-> "transform_full", buf |-> buf, a |-> Ref(o),
                    b_type |-> new_type,
                    res |-> transform_full(buf, Ref(o), target_frame, target_time,
                                           fixed_frame, new_type)]
        /\ UNCHANGED <<RegVars, ConcVars>>

Call_lookup_transform ==
    \E buf \in Buffers, target_frame \in Frames, source_frame \in Frames,
       time \in Stamps :
        /\ Idle
        /\ last' = [op |-> "lookup_transform", buf |-> buf,
                    out |-> lookup_transform(buf, target_frame, source_frame, time)]
        /\ UNCHANGED <<RegVars, ConcVars>>

Call_lookup_transform_full ==
    \E buf \in Buffers, target_frame \in Frames, source_frame \in Frames,
       target_time \in Stamps, source_time \in Stamps, fixed_frame \in FixedFrames :
        /\ Idle
        /\ last' = [op |-> "lookup_transform_full", buf |-> buf,
                    out |-> lookup_transform_full(buf, target_frame, target_time,
                                source_frame, source_time, fixed_frame)]
        /\ UNCHANGED <<RegVars, ConcVars>>

Call_can_transform ==
    \E buf \in Buffers, target_frame \in Frames, source_frame \in Frames,
       time \in Stamps :
        /\ Idle
        /\ last' = [op |-> "can_transform", buf |-> buf,
                    out |-> can_transform(buf, target_frame, source_frame, time)]
        /\ UNCHANGED <<RegVars, ConcVars>>

Call_can_transform_full ==
    \E buf \in Buffers, target_frame \in Frames, source_frame \in Frames,
       target_time \in Stamps, source_time \in Stamps, fixed_frame \in FixedFrames :
        /\ Idle
        /\ last' = [op |-> "can_transform_full", buf |-> buf,
                    out |-> can_transform_full(buf, target_frame, target_time,
                                source_frame, source_time, fixed_frame)]
        /\ UNCHANGED <<RegVars, ConcVars>>

Next ==
    \/ Register_transform(MaxRegs)
    \/ Register_to_msg(MaxRegs)
    \/ Register_from_msg(MaxRegs)
    \/ Register_convert(MaxRegs)
    \/ Call_convert
    \/ Call_transform
    \/ Call_transform_full
    \/ Call_lookup_transform
    \/ Call_lookup_transform_full
    \/ Call_can_transform
    \/ Call_can_transform_full
    \/ Continue

Spec == Init /\ [][Next]_vars


IsTransformCall == last.op \in {"transform", "transform_full"}

\* The lookup a transform call delegates to.
LookupOf(op) == IF op = "transform" THEN "lookup_transform" ELSE "lookup_transform_full"

\* C5: transform and transform_full on an object whose type has no
\* apply_transform registration raise TypeException for that type and never
\* invoke the buffer's lookup, whatever the buffer and new_type are.
C5_RegistryBeforeBuffer ==
    (IsTransformCall /\ TypeKey(last.a.type) \notin DOMAIN type_map)
        => /\ last.res.out = Raise(TypeException(TypeKey(last.a.type)))
           /\ last.res.calls = <<>>

\* C5 witness: transform of a SubPoint with new_type given, on a buffer whose
\* lookup would have failed, while the superclass Point is registered.
C5_Witness ==
    /\ last.op = "transform" /\ last.a.type = "SubPoint"
    /\ TypeKey("Point") \in DOMAIN type_map
    /\ TypeKey("SubPoint") \notin DOMAIN type_map
    /\ last.buf = "Buffer_LookupException" /\ last.b_type # None
    /\ IsTypeException(last.res.out)

\* The error the lookup of a buffer fails with.
LookupErrorOf(buf) ==
    IF buf = "BufferInterface" THEN NotImplementedException ELSE LookupException

\* C6: when the delegated lookup fails for an object of a registered type, the
\* call raises exactly the buffer's error, after exactly one lookup and with no
\* callback applied and no conversion attempted.
C6_LookupErrorPassesThrough ==
    (/\ IsTransformCall /\ TypeKey(last.a.type) \in DOMAIN type_map
     /\ last.buf # "Buffer_ok")
        => /\ last.res.out = Raise(LookupErrorOf(last.buf))
           /\ last.res.calls = <<LookupOf(last.op)>>

\* C6 witness: transform_full with a conversion requested, on a registered type
\* and a buffer that raises LookupException.
C6_Witness ==
    /\ last.op = "transform_full" /\ TypeKey(last.a.type) \in DOMAIN type_map
    /\ last.buf = "Buffer_LookupException" /\ last.b_type # None
    /\ last.res.out = Raise(LookupException)

\* No direct entry for (type(a), b_type), a is no instance of b_type, and the
\* bridge lacks to_canonical[type(a)] or from_canonical[b_type].
NoPath(a, b_type) ==
    /\ PairKey(a.type, b_type) \notin DOMAIN convert_map
    /\ ~isinstance(a, b_type)
    /\ \/ TypeKey(a.type) \notin DOMAIN to_msg_map
       \/ TypeKey(b_type) \notin DOMAIN from_msg_map

\* The key whose lookup fails on the bridge.
MissingKey(a, b_type) ==
    IF TypeKey(a.type) \notin DOMAIN to_msg_map THEN TypeKey(a.type) ELSE TypeKey(b_type)

\* What do_transform hands to convert in a transform call on a working buffer.
Transformed(a) ==
    CallApplyFn(type_map[TypeKey(a.type)], a, TransformStamped("base", "laser", 1))

\* C7: convert(a, b_type) with no conversion path raises TypeException without
\* applying any callback (to_canonical is not applied when only from_canonical
\* is missing); and transform / transform_full with a registered type, a
\* successful lookup and no path from the result's type to new_type raise
\* TypeException after the lookup and do_transform, with no conversion callback
\* applied and no value returned.
C7_NoPathRaises ==
    /\ (last.op = "convert" /\ NoPath(last.a, last.b_type))
        => /\ last.res.out = Raise(TypeException(MissingKey(last.a, last.b_type)))
           /\ last.res.calls = <<>>
    /\ (/\ IsTransformCall /\ TypeKey(last.a.type) \in DOMAIN type_map
        /\ last.buf = "Buffer_ok" /\ last.b_type # None
        /\ NoPath(Transformed(last.a), last.b_type))
        => /\ last.res.out =
                Raise(TypeException(MissingKey(Transformed(last.a), last.b_type)))
           /\ last.res.calls =
                <<LookupOf(last.op), type_map[TypeKey(last.a.type)], "convert">>

\* C7 witness: transform of a Point into new_type Pose came back with
\* TypeException although to_canonical is registered for the result's type.
C7_Witness ==
    /\ last.op = "transform" /\ TypeKey(last.a.type) \in DOMAIN type_map
    /\ last.buf = "Buffer_ok" /\ last.b_type = "Pose"
    /\ Transformed(last.a).type = "Point"
    /\ TypeKey("Point") \in DOMAIN to_msg_map
    /\ NoPath(Transformed(last.a), last.b_type)
    /\ IsTypeException(last.res.out)

\* C9: on the base class, lookup_transform, lookup_transform_full, can_transform
\* and can_transform_full raise NotImplementedException for every input, and
\* transform / transform_full of an object of a registered type raise the same
\* error with only the lookup invoked.
C9_BaseClassNotImplemented ==
    /\ (/\ last.op \in {"lookup_transform", "lookup_transform_full", "can_transform",
                        "can_transform_full"}
        /\ last.buf = "BufferInterface")
        => last.out = Raise(NotImplementedException)
    /\ (/\ IsTransformCall /\ last.buf = "BufferInterface"
        /\ TypeKey(last.a.type) \in DOMAIN type_map)
        => /\ last.res.out = Raise(NotImplementedException)
           /\ last.res.calls = <<LookupOf(last.op)>>

\* C9 witness: transform on the base class with a registered type raised
\* NotImplementedException.
C9_Witness ==
    /\ last.op = "transform" /\ last.buf = "BufferInterface"
    /\ TypeKey(last.a.type) \in DOMAIN type_map
    /\ last.res.out.kind = "raise"
    /\ last.res.out.val.type = "NotImplementedException"


\* ------------------------------------------------------------------ Stamped
\* Stamped that builds a stamped copy and leaves its argument alone.
Stamped_copy(h, obj, stamp, frame_id) ==
    [heap |-> h,
     ret |-> [id |-> Fresh, type |-> h[obj].type, header |-> Header(frame_id, stamp),
              data |-> h[obj].data]]

\* Stamped(obj, stamp, frame_id): obj.header = Header(frame_id=frame_id, stamp=stamp);
\* return obj. h is the heap, obj the identity of the argument.
Stamped(h, obj, stamp, frame_id) ==
    LET h2 == [h EXCEPT ![obj].header = Header(frame_id, stamp)]
    IN  [heap |-> h2,
         ret |-> [id |-> obj, type |-> h2[obj].type, header |-> h2[obj].header,
                  data |-> h2[obj].data]]

Call_Stamped ==
    \E o \in ObjIds, stamp \in Stamps, frame_id \in Frames :
        /\ Idle
        /\ heap' = Stamped(heap, o, stamp, frame_id).heap
        /\ last' = [op |-> "Stamped", obj |-> o, stamp |-> stamp, frame_id |-> frame_id,
                    before |-> heap, ret |-> Stamped(heap, o, stamp, frame_id).ret]
        /\ UNCHANGED <<type_map, to_msg_map, from_msg_map, convert_map, nRegs,
                       registered, ever, ConcVars>>

NextStamped ==
    \/ Call_Stamped
    \/ Continue

SpecStamped == Init /\ [][NextStamped]_vars

\* C8 as stated: Stamped returns a value with header (frame_id, stamp) and the
\* caller's object is as it was before the call, header included.
C8_StampedPure ==
    (last.op = "Stamped")
        => /\ last.ret.header = Header(last.frame_id, last.stamp)
           /\ heap[last.obj] = last.before[last.obj]

\* C8 amended: Stamped returns the very object it was given, with its header
\* replaced by (frame_id, stamp); the header the object carried before is
\* gone from the caller's object, its type and data and every other object
\* are untouched.
C8_StampedInPlace ==
    (last.op = "Stamped")
        => /\ last.ret.id = last.obj
           /\ last.ret.header = Header(last.frame_id, last.stamp)
           /\ heap[last.obj].header = Header(last.frame_id, last.stamp)
           /\ heap[last.obj].type = last.before[last.obj].type
           /\ heap[last.obj].data = last.before[last.obj].data
           /\ \A i \in ObjIds \ {last.obj} : heap[i] = last.before[i]

\* C8 witness: Stamped was called on an object that carried another header.
C8_Witness ==
    /\ last.op = "Stamped"
    /\ last.before[last.obj].header # Header(last.frame_id, last.stamp)
    /\ last.before[last.obj].header # Header("laser", 1)

\* ------------------------------------------------------------------ threads
KeysOf(reg) == IF reg = "convert_map" THEN PairKeys ELSE TypeKeys

FnsOf(reg) ==
    CASE reg = "type_map" -> ApplyFns
      [] reg = "to_msg_map" -> ToFns
      [] reg = "from_msg_map" -> FromFns
      [] reg = "convert_map" -> ConvertFns

\* A thread runs one of the four add methods: a single dict store.
T_add(t) ==
    \E reg \in Registries : \E key \in KeysOf(reg), cb \in FnsOf(reg) :
        /\ Idle /\ tpc[t] = "idle" /\ nRegs < MaxConcRegs
        /\ type_map' = IF reg = "type_map" THEN add(type_map, key, cb) ELSE type_map
        /\ to_msg_map' =
              IF reg = "to_msg_map" THEN add_to_msg(to_msg_map, key, cb) ELSE to_msg_map
        /\ from_msg_map' =
              IF reg = "from_msg_map" THEN add_from_msg(from_msg_map, key, cb)
              ELSE from_msg_map
        /\ convert_map' =
              IF reg = "convert_map" THEN add_convert(convert_map, key, cb)
              ELSE convert_map
        /\ registered' = Note(reg, key, cb)
        /\ ever' = NoteEver(reg, key, cb)
        /\ nRegs' = nRegs + 1
        /\ UNCHANGED <<heap, last, tpc, tkey>>

\* A thread enters one of the four getters and runs its membership test:
\* "if key not in map: raise TypeException", else it goes on to the read.
T_get_test(t) ==
    \E reg \in Registries : \E key \in KeysOf(reg) :
        /\ Idle /\ tpc[t] = "idle"
        /\ IF ~contains(MapOf(reg), key)
           THEN /\ last' = [op |-> "get", thread |-> t, reg |-> reg, key |-> key,
                            tested |-> FALSE,
                            known |-> key \in DOMAIN ever[reg],
                            seen |-> "none",
                            out |-> Raise(TypeException(key))]
                /\ UNCHANGED <<tpc, tkey>>
           ELSE /\ tpc' = [tpc EXCEPT ![t] = "tested"]
                /\ tkey' = [tkey EXCEPT ![t] = <<reg, key, MapOf(reg)[key]>>]
                /\ UNCHANGED last
        /\ UNCHANGED RegVars

\* The thread runs the else branch of its getter: "return map[key]".
T_get_read(t) ==
    /\ Idle /\ tpc[t] = "tested"
    /\ last' = [op |-> "get", thread |-> t, reg |-> tkey[t][1], key |-> tkey[t][2],
                tested |-> TRUE, known |-> TRUE, seen |-> tkey[t][3],
                out |-> getitem(MapOf(tkey[t][1]), tkey[t][2])]
    /\ tpc' = [tpc EXCEPT ![t] = "idle"]
    /\ tkey' = [tkey EXCEPT ![t] = NoKey]
    /\ UNCHANGED RegVars

NextConc ==
    \/ \E t \in Threads : T_add(t)
    \/ \E t \in Threads : T_get_test(t)
    \/ \E t \in Threads : T_get_read(t)
    \/ Continue

SpecConc == Init /\ [][NextConc]_vars

\* C10: with register and get calls of several threads interleaved without a
\* lock, a get whose membership test succeeded returns a callback that was
\* registered for its key at some point (its read never fails), a thread
\* between test and read finds its key still present, and a get that begins
\* after a register of its key has completed does not raise TypeException.
C10_UnlockedGetIsSafe ==
    /\ (last.op = "get" /\ last.tested)
        => /\ last.out.kind = "return"
           /\ last.out.val \in ever[last.reg][last.key]
    /\ (last.op = "get" /\ last.known) => last.out.kind = "return"
    /\ \A t \in Threads :
          tpc[t] = "tested" => getitem(MapOf(tkey[t][1]), tkey[t][2]).kind = "return"

\* C10 witness: a get returned a callback that another thread registered for
\* the key after the get's membership test had run.
C10_Witness ==
    /\ last.op = "get" /\ last.tested
    /\ last.out.kind = "return"
    /\ last.out.val # last.seen

====
